---- MODULE Spec2Model ----
(***************************************************************************)
(* TatraPay+ client library (lib/tatrapay.ts) and the payment route        *)
(* handlers (create, webhook) of ZEDce/tatrapay-nextjs.                    *)
(*                                                                         *)
(* Optional JavaScript values are sequences of length 0 or 1:              *)
(*   <<>>   undefined / null                                               *)
(*   <<v>>  the value v                                                    *)
(***************************************************************************)
EXTENDS Integers, Sequences, FiniteSets, TLC

VARIABLES
    cachedToken,    \* module-level `cachedToken` of the client library
    now,            \* Date.now(), in ms since the start of the run
    credentials,    \* TRUE iff TATRAPAY_CLIENT_ID and TATRAPAY_CLIENT_SECRET are set
    tokenRequests,  \* POSTs sent to the token endpoint so far
    staleRequests,  \* token-endpoint POSTs since getAccessToken last returned a token
    proc,           \* per request context: the position of its invocation
    statusArg,      \* status handed to the status helpers
    helperRet       \* what each status helper returned for statusArg

vars == <<cachedToken, now, credentials, tokenRequests, staleRequests,
          proc, statusArg, helperRet>>

clientVars == <<cachedToken, now, credentials, tokenRequests, staleRequests, proc>>

helperVars == <<statusArg, helperRet>>

-----------------------------------------------------------------------------
(* Optional values *)

None == <<>>

Some(v) == <<v>>

\* JavaScript truthiness of an optional string: undefined and '' are falsy.
Truthy(opt) == opt # None /\ opt[1] # ""

-----------------------------------------------------------------------------
(* Status helpers *)

\* Status strings the gateway can hand to the helpers: the TatraPayStatus
\* vocabulary, the non-ISO values the README reports, and other strings.
StatusUniverse ==
    {"ACCC", "ACSC", "ACSP", "ACCP", "ACTC", "ACWC", "ACWP", "ACFC",
     "RCVD", "PDNG", "PATC", "PART", "RJCT", "CANC",
     "OK", "AUTH_DONE", "INIT", "SETTLED", "acsc", ""}

successCodes == {"ACCC", "ACSC", "ACSP", "ACCP", "ACTC", "ACWC", "ACWP", "ACFC"}

failedCodes == {"RJCT", "CANC"}

pendingCodes == {"RCVD", "PDNG", "PATC", "PART"}

isPaymentSuccessfulOnlySettled(status) == status \in {"ACCC", "ACSC"}

isPaymentSuccessful(status) == status \in successCodes

isPaymentFailedOnlyRejected(status) == status = "RJCT"

isPaymentFailed(status) == status \in failedCodes

isPaymentPending(status) == status \in pendingCodes

mapToInternalStatusPendingFirst(status) ==
    IF isPaymentPending(status) THEN "pending"
    ELSE IF isPaymentSuccessful(status) THEN "completed"
    ELSE "failed"

mapToInternalStatus(status) ==
    IF isPaymentSuccessful(status) THEN "completed"
    ELSE IF isPaymentFailed(status) THEN "failed"
    ELSE "pending"

HelperNames ==
    {"isPaymentSuccessful", "isPaymentFailed", "isPaymentPending",
     "mapToInternalStatus"}

\* No helper has been called on statusArg yet.
NotCalled == [h \in HelperNames |-> None]

HelperInit ==
    /\ statusArg \in StatusUniverse
    /\ helperRet = NotCalled

\* A caller picks the next status to classify.
NewStatus ==
    /\ \E s \in StatusUniverse : statusArg' = s
    /\ helperRet' = NotCalled
    /\ UNCHANGED clientVars

CallIsPaymentSuccessful ==
    /\ helperRet' = [helperRet EXCEPT
            !["isPaymentSuccessful"] = Some(isPaymentSuccessful(statusArg))]
    /\ UNCHANGED <<statusArg, clientVars>>

CallIsPaymentFailed ==
    /\ helperRet' = [helperRet EXCEPT
            !["isPaymentFailed"] = Some(isPaymentFailed(statusArg))]
    /\ UNCHANGED <<statusArg, clientVars>>

CallIsPaymentPending ==
    /\ helperRet' = [helperRet EXCEPT
            !["isPaymentPending"] = Some(isPaymentPending(statusArg))]
    /\ UNCHANGED <<statusArg, clientVars>>

CallMapToInternalStatus ==
    /\ helperRet' = [helperRet EXCEPT
            !["mapToInternalStatus"] = Some(mapToInternalStatus(statusArg))]
    /\ UNCHANGED <<statusArg, clientVars>>

-----------------------------------------------------------------------------
(* Bounds and program constants *)

\* Request contexts that can be in flight at once.
Procs == {"p1", "p2"}

MaxTokenRequests == 2

MaxTicks == 2

TickSeconds == 30

\* `cachedToken.expiresAt - 60000` in getAccessToken
SafetyMarginMs == 60000

\* `tokenData.expires_in * 1000` in getAccessToken
MsPerSecond == 1000

\* `request.amount.amount / 100` in createPayment
MinorUnitsPerUnit == 100

TickMs == TickSeconds * MsPerSecond

\* expires_in values (seconds) the token endpoint declares
ExpiresInValues == {60, 120}

\* HTTP status codes the token endpoint and the gateway answer with
HttpStatuses == {200, 400}

\* Response.ok
ResponseOk(status) == status \in 200..299

-----------------------------------------------------------------------------
(* Errors and results *)

\* new Error(message): the message template, the HTTP status and the
\* response data interpolated into it (when the template has them).
Error(name, text, status, data) ==
    [name |-> name, text |-> text, status |-> status, data |-> data]

Returned(v) == [ok |-> TRUE, value |-> Some(v), error |-> None]

Thrown(e) == [ok |-> FALSE, value |-> None, error |-> Some(e)]

\* getCredentials: throws when the client id or the client secret is unset.
CredentialsError ==
    Error("Error", "TatraPay credentials not configured. Set TATRAPAY_CLIENT_ID and TATRAPAY_CLIENT_SECRET.",
          None, None)

\* fetch() rejects when no HTTP response arrives.
FetchFailed == Error("TypeError", "fetch failed", None, None)

-----------------------------------------------------------------------------
(* getAccessToken *)

CacheFreshNoMargin ==
    /\ cachedToken # None
    /\ now < cachedToken[1].expiresAt

CacheFreshMarginInSeconds ==
    /\ cachedToken # None
    /\ now < cachedToken[1].expiresAt - 60

\* `cachedToken && Date.now() < cachedToken.expiresAt - 60000`
CacheFresh ==
    /\ cachedToken # None
    /\ now < cachedToken[1].expiresAt - SafetyMarginMs

NewTokenExpiryInSeconds(tokenData) ==
    [access_token |-> tokenData.access_token,
     expires_in   |-> tokenData.expires_in,
     expiresAt    |-> now + tokenData.expires_in]

\* `{ ...tokenData, expiresAt: Date.now() + (tokenData.expires_in * 1000) }`
NewToken(tokenData) ==
    [access_token |-> tokenData.access_token,
     expires_in   |-> tokenData.expires_in,
     expiresAt    |-> now + (tokenData.expires_in * MsPerSecond)]

\* Answers of the token endpoint to the request with ordinal n: a token
\* response, a 2xx body that is not JSON, a non-2xx status, no response.
TokenOutcomes(n) ==
    [kind : {"token"}, status : {200}, text : {""},
     access_token : {n}, expires_in : ExpiresInValues]
    \cup [kind : {"text"}, status : HttpStatuses, text : {"invalid_client"},
          access_token : {0}, expires_in : {0}]
    \cup [kind : {"network"}, status : {0}, text : {""},
          access_token : {0}, expires_in : {0}]

TokenResultWithBody(out) ==
    IF out.kind = "network" THEN Thrown(FetchFailed)
    ELSE IF ~ResponseOk(out.status)
    THEN Thrown(Error("Error", "TatraPay authentication failed: ",
                      Some(out.status), Some(out.text)))
    ELSE IF out.kind = "text"
    THEN Thrown(Error("SyntaxError", "Unexpected token in JSON", None, None))
    ELSE Returned(out.access_token)

\* What getAccessToken does with the token endpoint's answer. The body of a
\* non-2xx answer is read and written to the console, not put in the error.
TokenResult(out) ==
    IF out.kind = "network" THEN Thrown(FetchFailed)
    ELSE IF ~ResponseOk(out.status)
    THEN Thrown(Error("Error", "TatraPay authentication failed: ",
                      Some(out.status), None))
    ELSE IF out.kind = "text"
    THEN Thrown(Error("SyntaxError", "Unexpected token in JSON", None, None))
    ELSE Returned(out.access_token)

-----------------------------------------------------------------------------
(* Strings the code cuts, trims, splits or strips: sequences of characters *)

\* Characters /\s/ matches.
Whitespace == {" ", "\t", "\n"}

\* Characters /[a-zA-Z0-9 .@_-]/ matches.
CardHolderChars ==
    {"a", "b", "c", "d", "e", "f", "g", "h", "i", "j", "k", "l", "m",
     "n", "o", "p", "q", "r", "s", "t", "u", "v", "w", "x", "y", "z",
     "A", "B", "C", "D", "E", "F", "G", "H", "I", "J", "K", "L", "M",
     "N", "O", "P", "Q", "R", "S", "T", "U", "V", "W", "X", "Y", "Z",
     "0", "1", "2", "3", "4", "5", "6", "7", "8", "9",
     " ", ".", "@", "_", "-"}

\* `.substring(0, 45)` of customerFullName and of sanitizedCardHolder
CardHolderMaxLen == 45

\* The string literal 'Customer'
Customer == <<"C", "u", "s", "t", "o", "m", "e", "r">>

\* n times the character c
Repeat(c, n) == [i \in 1..n |-> c]

\* JavaScript truthiness of an optional string: undefined and '' are falsy.
TruthyText(opt) == opt # None /\ opt[1] # <<>>

RECURSIVE TrimStart(_)
TrimStart(text) ==
    IF text # <<>> /\ Head(text) \in Whitespace THEN TrimStart(Tail(text)) ELSE text

RECURSIVE TrimEnd(_)
TrimEnd(text) ==
    IF text # <<>> /\ text[Len(text)] \in Whitespace
    THEN TrimEnd(SubSeq(text, 1, Len(text) - 1))
    ELSE text

\* String.prototype.trim
trim(text) == TrimEnd(TrimStart(text))

\* text.substring(0, n)
substring(text, n) == SubSeq(text, 1, IF Len(text) < n THEN Len(text) ELSE n)

\* text.split(separator)[0]
FirstPiece(text, separator) ==
    LET at == {i \in 1..Len(text) : text[i] = separator} IN
    IF at = {} THEN text
    ELSE SubSeq(text, 1, (CHOOSE i \in at : \A j \in at : i <= j) - 1)

\* text.replace(/<class>/g, ''): the characters outside `removed`, in order
RemoveAll(text, removed) == SelectSeq(text, LAMBDA c : c \notin removed)

\* text.replace(/[^<class>]/g, ''): the characters of `kept`, in order
KeepOnly(text, kept) == SelectSeq(text, LAMBDA c : c \in kept)

-----------------------------------------------------------------------------
(* apiRequest *)

\* The request apiRequest hands to fetch: the optional headers are set only
\* for truthy arguments, the body only for POST and PUT.
apiRequestCall(method, endpoint, body, customerIpAddress, redirectUri, preferredMethod) ==
    [method |-> method,
     endpoint |-> endpoint,
     ipAddress |-> IF TruthyText(customerIpAddress) THEN customerIpAddress ELSE None,
     redirectUri |-> IF TruthyText(redirectUri) THEN redirectUri ELSE None,
     preferredMethod |-> IF Truthy(preferredMethod) THEN preferredMethod ELSE None,
     body |-> IF body # None /\ method \in {"POST", "PUT"} THEN body ELSE None]

\* A body the gateway sends that JSON.parse rejects.
TextBody == [kind |-> "text", text |-> "<html>Bad Gateway</html>"]

\* The JSON literal null.
NullBody == [kind |-> "null"]

ParseApiResponseIgnoringStatus(gw) ==
    IF gw.kind = "network" THEN Thrown(FetchFailed)
    ELSE IF gw.body.kind = "text"
    THEN Thrown(Error("Error", "TatraPay returned invalid response: ",
                      None, Some(gw.body)))
    ELSE Returned(gw.body)

\* apiRequest from `await fetch(url, options)` on: the body is parsed first,
\* the HTTP status is looked at second.
ParseApiResponse(gw) ==
    IF gw.kind = "network" THEN Thrown(FetchFailed)
    ELSE IF gw.body.kind = "text"
    THEN Thrown(Error("Error", "TatraPay returned invalid response: ",
                      None, Some(gw.body)))
    ELSE IF ~ResponseOk(gw.status)
    THEN Thrown(Error("Error", "TatraPay API error: ",
                      Some(gw.status), Some(gw.body)))
    ELSE Returned(gw.body)

\* The gateway's answers, given the JSON bodies an endpoint can send.
GatewayOutcomes(bodies) ==
    [kind : {"http"}, status : HttpStatuses, body : bodies \cup {TextBody, NullBody}]
    \cup {[kind |-> "network", status |-> 0, body |-> NullBody]}

-----------------------------------------------------------------------------
(* createPayment *)

\* TatraPayMethod
Methods == {"CARD_PAY", "BANK_TRANSFER", "QR_PAY", "PAY_LATER"}

\* amount.amount in cents
Amounts == {7950, 10000}

BankTransferData == [iban |-> "SK3111000000002600000000", bic |-> "TATRSKBX",
                     variableSymbol |-> "1234567890"]

\* The CARD_PAY entry of availablePaymentMethods, when the response has one.
CardMethodEntries ==
    {None,
     Some([isAvailable |-> TRUE, description |-> None]),
     Some([isAvailable |-> FALSE, description |-> None]),
     Some([isAvailable |-> FALSE, description |-> Some("cardDetail was not provided")])}

\* JSON objects POST /v1/payments answers with.
CreateBodies ==
    [kind : {"object"},
     paymentId : {Some("pay-1")},
     tatraPayPlusUrl : {None, Some(""), Some("https://gw/pay-1")},
     bankTransferData : {None, Some(BankTransferData)},
     cardMethod : CardMethodEntries]

DivideBy100Truncating(amount) ==
    [whole |-> amount \div MinorUnitsPerUnit, hundredths |-> 0]

AmountUnchanged(amount) == [whole |-> amount, hundredths |-> 0]

\* `request.amount.amount / 100`: a JavaScript number, whole part and
\* hundredths.
DivideBy100(amount) ==
    [whole |-> amount \div MinorUnitsPerUnit, hundredths |-> amount % MinorUnitsPerUnit]

\* The JSON object {}
EmptyObject == [kind |-> "object"]

\* `customerFullName`: 'firstName lastName' trimmed and cut, or 'Customer'
\* when the request has no customer.
customerFullName(request) ==
    IF request.customer # None
    THEN substring(trim(request.customer[1].firstName \o <<" ">>
                        \o request.customer[1].lastName),
                   CardHolderMaxLen)
    ELSE Customer

sanitizedCardHolderStripFirst(request) ==
    LET name == IF request.customer # None
                THEN request.customer[1].firstName \o <<" ">>
                        \o request.customer[1].lastName
                ELSE Customer
        stripped == substring(trim(KeepOnly(name, CardHolderChars)), CardHolderMaxLen) IN
    IF stripped = <<>> THEN Customer ELSE stripped

\* `sanitizedCardHolder`: customerFullName stripped of every character
\* outside [a-zA-Z0-9 .@_-] and cut, or 'Customer' when nothing is left.
sanitizedCardHolder(request) ==
    LET stripped == substring(KeepOnly(customerFullName(request), CardHolderChars),
                              CardHolderMaxLen) IN
    IF stripped = <<>> THEN Customer ELSE stripped

merchantReferenceTrimmed(request) == trim(request.merchantReference)

\* `request.merchantReference.replace(/\s/g, '')`
merchantReferenceSent(request) == RemoveAll(request.merchantReference, Whitespace)

\* `request.returnUrl.split('?')[0]`
baseRedirectUrl(request) == FirstPiece(request.returnUrl, "?")

\* The method specific structures of apiBody: cardDetail for CARD_PAY,
\* bankTransfer for BANK_TRANSFER, nothing for any other method.
MethodStructures(request) ==
    [cardDetail |->
        IF request.paymentMethod = "CARD_PAY"
        THEN Some([cardHolder |-> sanitizedCardHolder(request)])
        ELSE None,
     bankTransfer |->
        IF request.paymentMethod = "CARD_PAY" THEN None
        ELSE IF request.paymentMethod = "BANK_TRANSFER" THEN Some(EmptyObject)
        ELSE None]

\* `apiBody`: the JSON createPayment posts.
apiBody(request) ==
    [amountValue |-> request.amount,
     currency |-> request.currency,
     merchantReference |-> merchantReferenceSent(request),
     cardDetail |-> MethodStructures(request).cardDetail,
     bankTransfer |-> MethodStructures(request).bankTransfer]

\* The POST createPayment sends through apiRequest.
CreateCall(request) ==
    apiRequestCall("POST", <<"/v1/payments">>, Some(apiBody(request)),
                   Some(request.customerIpAddress), Some(baseRedirectUrl(request)),
                   Some(request.paymentMethod))

createPaymentResultUnvalidated(request, response) ==
    IF response.kind = "null"
    THEN Thrown(Error("TypeError", "Cannot read properties of null", None, None))
    ELSE Returned(
        [paymentId |-> response.paymentId,
         status |-> "RCVD",
         redirectUrl |-> response.tatraPayPlusUrl,
         bankTransferInfo |->
            IF response.bankTransferData # None
            THEN Some([iban |-> response.bankTransferData[1].iban,
                       bic |-> response.bankTransferData[1].bic,
                       variableSymbol |-> response.bankTransferData[1].variableSymbol,
                       amount |-> DivideBy100(request.amount),
                       currency |-> request.currency])
            ELSE None])

\* createPayment after apiRequest returned `response`: the card-payment
\* validation and the TatraPayPaymentResponse it builds.
createPaymentResult(request, response) ==
    IF response.kind = "null"
    THEN Thrown(Error("TypeError", "Cannot read properties of null", None, None))
    ELSE IF request.paymentMethod = "CARD_PAY" /\ ~Truthy(response.tatraPayPlusUrl)
    THEN IF response.cardMethod # None /\ ~response.cardMethod[1].isAvailable
         THEN Thrown(Error("Error",
                  IF Truthy(response.cardMethod[1].description)
                  THEN "TatraPay: " \o response.cardMethod[1].description[1]
                  ELSE "TatraPay: Card payment not available",
                  None, None))
         ELSE Thrown(Error("Error", "TatraPay: No redirect URL returned for card payment",
                           None, None))
    ELSE Returned(
        [paymentId |-> response.paymentId,
         status |-> "RCVD",
         redirectUrl |-> response.tatraPayPlusUrl,
         bankTransferInfo |->
            IF response.bankTransferData # None
            THEN Some([iban |-> response.bankTransferData[1].iban,
                       bic |-> response.bankTransferData[1].bic,
                       variableSymbol |-> response.bankTransferData[1].variableSymbol,
                       amount |-> DivideBy100(request.amount),
                       currency |-> request.currency])
            ELSE None])

-----------------------------------------------------------------------------
(* getPaymentStatus *)

PaymentIds == {"pay-1", "pay-2"}

\* Status values the status endpoint reports to the handlers: one of each
\* class of the vocabulary, and the non-ISO 'OK' of card payments.
GatewayStatuses == {"ACSC", "RJCT", "PDNG", "OK"}

\* JSON objects GET /v1/payments/{id}/status answers with.
StatusBodies ==
    [kind : {"object"}, paymentId : {Some("pay-1")}, status : GatewayStatuses,
     hasInstructedAmount : {TRUE}]
    \cup [kind : {"object"}, paymentId : {Some("pay-1")}, status : {"ACSC"},
          hasInstructedAmount : {FALSE}]

StatusCallWithoutId(paymentId) ==
    apiRequestCall("GET", <<"/v1/payments/status">>, None, None, None, None)

\* The GET getPaymentStatus sends through apiRequest.
StatusCall(paymentId) ==
    apiRequestCall("GET", <<"/v1/payments/", paymentId, "/status">>,
                   None, None, None, None)

\* getPaymentStatus after apiRequest returned `response`.
getPaymentStatusResult(response) ==
    IF response.kind = "null" \/ ~response.hasInstructedAmount
    THEN Thrown(Error("TypeError", "Cannot read properties of undefined", None, None))
    ELSE Returned([paymentId |-> response.paymentId, status |-> response.status])

-----------------------------------------------------------------------------
(* Route handlers: responses *)

\* A message that is a string literal of the source.
Literal(text) == [text |-> text, status |-> None, data |-> None]

\* error.message
MessageOf(e) == [text |-> e.text, status |-> e.status, data |-> e.data]

\* NextResponse.json(body, { status })
Json(status, body) == Some([status |-> status, body |-> body])

\* The forwarding headers of a request to the create handler: a list of
\* addresses, a blank x-forwarded-for next to an x-real-ip, and neither.
CreateHandlerHeaders ==
    {[forwardedFor |-> Some(<<"10.0.0.1", ",", " ", "10.0.0.2">>), realIp |-> None],
     [forwardedFor |-> Some(<<" ">>), realIp |-> Some(<<"10.0.0.9">>)],
     [forwardedFor |-> None, realIp |-> None]}

\* Requests to POST /api/payment/create. '' and 0 stand for every
\* falsy value of a field, the missing field included.
CreateHandlerBodies ==
    {b \in [kind : {"object"}, orderId : {<<>>, <<"O", "R", "D", "-", "1">>},
            paymentMethod : {"", "CARD_PAY", "BANK_TRANSFER", "QR_PAY"},
            amount : {0} \cup Amounts, email : {"", "jan@example.sk"},
            firstName : {<<"J", "a", "n">>}, lastName : {<<"K", "o", "s">>},
            currency : {"EUR"}, headers : CreateHandlerHeaders] :
        Cardinality({f \in {"paymentMethod", "email"} : b[f] = ""}
                    \cup {f \in {"orderId"} : b[f] = <<>>}
                    \cup {f \in {"amount"} : b[f] = 0}) <= 1}
    \cup {TextBody, NullBody}

\* `customerIpAddress` of the create handler: the first entry of
\* x-forwarded-for trimmed, else x-real-ip, else '127.0.0.1'.
HandlerIpAddress(headers) ==
    LET first == IF headers.forwardedFor # None
                 THEN Some(trim(FirstPiece(headers.forwardedFor[1], ",")))
                 ELSE None IN
    IF TruthyText(first) THEN first[1]
    ELSE IF TruthyText(headers.realIp) THEN headers.realIp[1]
    ELSE <<"127.0.0.1">>

\* `returnUrl` of the create handler, with the defaults of protocol and host.
HandlerReturnUrl(body) ==
    <<"https", "://", "localhost:3000", "/api/payment/callback", "?", "orderId=">>
        \o body.orderId

\* The TatraPayCreatePaymentRequest the create handler hands to createPayment.
CreateRequestOf(body) ==
    [paymentMethod |-> body.paymentMethod, amount |-> body.amount,
     currency |-> body.currency,
     merchantReference |-> body.orderId,
     customer |-> Some([firstName |-> body.firstName, lastName |-> body.lastName]),
     returnUrl |-> HandlerReturnUrl(body),
     customerIpAddress |-> HandlerIpAddress(body.headers)]

\* Requests to createPayment called directly.
CreateRequests ==
    [paymentMethod : Methods, amount : Amounts, currency : {"EUR"},
     merchantReference : {<<"O", "R", "D", "-", "1">>},
     customer : {Some([firstName |-> <<"J", "a", "n">>, lastName |-> <<"K", "o", "s">>])},
     returnUrl : {<<"https", "://", "shop.example", "/done", "?", "orderId=", "1">>},
     customerIpAddress : {<<"10.0.0.1">>}]

\* The create handler up to the call of createPayment: the response it
\* returns early, or None when it goes on to createPayment. request.json()
\* rejects a body that is not JSON and `body.orderId` throws on null; the
\* catch answers both.
CreateHandlerEarly(body) ==
    IF body.kind = "text"
    THEN Json(500, [success |-> FALSE,
                    error |-> Some(Literal("Unexpected token in JSON"))])
    ELSE IF body.kind = "null"
    THEN Json(500, [success |-> FALSE,
                    error |-> Some(Literal("Cannot read properties of null"))])
    ELSE IF body.orderId = <<>> \/ body.paymentMethod = "" \/ body.amount = 0
            \/ body.email = ""
    THEN Json(400, [success |-> FALSE, error |-> Some(Literal("Missing required fields"))])
    ELSE IF body.paymentMethod \notin {"CARD_PAY", "BANK_TRANSFER"}
    THEN Json(400, [success |-> FALSE, error |-> Some(Literal("Invalid payment method"))])
    ELSE None

CreateHandlerResponseAllFields(body, result) ==
    IF ~result.ok
    THEN Json(500, [success |-> FALSE, error |-> Some(MessageOf(result.error[1]))])
    ELSE LET payment == result.value[1] IN
         Json(200, [success |-> TRUE, paymentId |-> payment.paymentId,
                    redirectUrl |-> payment.redirectUrl,
                    bankTransfer |-> payment.bankTransferInfo])

\* The create handler after createPayment returned or threw.
CreateHandlerResponse(body, result) ==
    IF ~result.ok
    THEN Json(500, [success |-> FALSE, error |-> Some(MessageOf(result.error[1]))])
    ELSE LET payment == result.value[1] IN
         IF body.paymentMethod = "CARD_PAY" /\ Truthy(payment.redirectUrl)
         THEN Json(200, [success |-> TRUE, paymentId |-> payment.paymentId,
                         redirectUrl |-> payment.redirectUrl,
                         bankTransfer |-> None])
         ELSE IF body.paymentMethod = "BANK_TRANSFER" /\ payment.bankTransferInfo # None
         THEN Json(200, [success |-> TRUE, paymentId |-> payment.paymentId,
                         redirectUrl |-> None,
                         bankTransfer |-> payment.bankTransferInfo])
         ELSE Json(200, [success |-> TRUE, paymentId |-> payment.paymentId,
                         redirectUrl |-> payment.redirectUrl,
                         bankTransfer |-> payment.bankTransferInfo])

\* Bodies delivered to POST /api/payment/webhook.
WebhookPayloads ==
    [kind : {"object"}, paymentId : PaymentIds, status : {"ACSC", "RJCT"},
     merchantReference : {"ORD-1"}]
    \cup {TextBody, NullBody}

\* The webhook handler up to the call of getPaymentStatus.
WebhookEarly(payload) ==
    IF payload.kind \in {"text", "null"}
    THEN Json(500, [error |-> Some(Literal("Webhook processing failed"))])
    ELSE None

WebhookBranchTrustingPayload(payload, verifiedStatus) ==
    IF isPaymentSuccessful(payload.status) THEN "successful"
    ELSE IF isPaymentFailed(payload.status) THEN "failed"
    ELSE "none"

\* Which `Handle status changes` block of the webhook handler runs.
WebhookBranch(payload, verifiedStatus) ==
    IF isPaymentSuccessful(verifiedStatus.status) THEN "successful"
    ELSE IF isPaymentFailed(verifiedStatus.status) THEN "failed"
    ELSE "none"

WebhookResponseWithoutCatch(result) == Json(200, [received |-> TRUE])

\* The webhook handler after getPaymentStatus returned or threw.
WebhookResponse(result) ==
    IF result.ok
    THEN Json(200, [received |-> TRUE])
    ELSE Json(500, [error |-> Some(Literal("Webhook processing failed"))])

-----------------------------------------------------------------------------
(* Callback handler: GET /api/payment/callback *)

\* `const paymentId = 'YOUR_STORED_PAYMENT_ID'`: what the handler has in place
\* of the lookup of the order's payment id.
StoredPaymentId == "YOUR_STORED_PAYMENT_ID"

\* Query strings of the callback: orderId absent, empty or present. With it
\* goes the status the gateway holds for the order's payment when the
\* browser comes back.
CallbackQueries ==
    [orderId : {None, Some(""), Some("ORD-1")}, gatewayStatus : GatewayStatuses]

\* redirectToResult: NextResponse.redirect to /payment/{status}?message=...,
\* with orderId=... when an order id is passed.
redirectToResult(status, message, orderId) ==
    Some([status |-> 307,
          body |-> [page |-> status, message |-> message,
                    orderId |-> IF Truthy(orderId) THEN orderId ELSE None]])

CallbackEarlyWithoutChecks(query) == None

\* The callback handler up to the call of getPaymentStatus: the redirect it
\* returns early, or None when it goes on to getPaymentStatus.
CallbackEarly(query) ==
    IF ~Truthy(query.orderId)
    THEN redirectToResult("error", "Missing order ID", None)
    ELSE IF StoredPaymentId = "" \/ StoredPaymentId = "YOUR_STORED_PAYMENT_ID"
    THEN redirectToResult("error", "Payment not found", None)
    ELSE None

\* The callback handler after getPaymentStatus returned or threw.
CallbackResponse(query, result) ==
    IF ~result.ok
    THEN redirectToResult("error", "Error verifying payment", None)
    ELSE LET paymentStatus == result.value[1] IN
         IF isPaymentSuccessful(paymentStatus.status)
         THEN redirectToResult("success", "Payment successful", None)
         ELSE IF isPaymentFailed(paymentStatus.status)
         THEN redirectToResult("failed", "Payment was declined", query.orderId)
         ELSE redirectToResult("pending", "Awaiting payment confirmation", None)

-----------------------------------------------------------------------------
(* getAvailablePaymentMethods *)

\* A decimal amount of the gateway: whole units and hundredths.
Decimal(whole, hundredths) == [whole |-> whole, hundredths |-> hundredths]

\* `Math.round(x * 100)`
ToMinorUnits(x) == x.whole * MinorUnitsPerUnit + x.hundredths

\* `x ? Math.round(x * 100) : undefined`: undefined and 0 are falsy.
OptionalMinorUnits(x) ==
    IF x = None \/ x[1] = Decimal(0, 0) THEN None ELSE Some(ToMinorUnits(x[1]))

\* JSON objects GET /v1/payments/methods answers with.
MethodsBodies ==
    {[kind |-> "object",
      paymentMethods |-> Some(<<
          [paymentMethod |-> "CARD_PAY", isAvailable |-> TRUE,
           minAmount |-> Some(Decimal(0, 0)), maxAmount |-> Some(Decimal(1500, 50))],
          [paymentMethod |-> "BANK_TRANSFER", isAvailable |-> FALSE,
           minAmount |-> None, maxAmount |-> None]>>)],
     [kind |-> "object", paymentMethods |-> None]}

\* The GET getAvailablePaymentMethods sends through apiRequest.
MethodsCall ==
    apiRequestCall("GET", <<"/v1/payments/methods">>, None, None, None, None)

\* getAvailablePaymentMethods after apiRequest returned `response`.
getAvailablePaymentMethodsResult(response) ==
    IF response.kind = "null" \/ response.paymentMethods = None
    THEN Thrown(Error("TypeError", "Cannot read properties of undefined", None, None))
    ELSE Returned(
        [i \in DOMAIN response.paymentMethods[1] |->
            LET m == response.paymentMethods[1][i] IN
            [method |-> m.paymentMethod,
             available |-> m.isAvailable,
             minAmount |-> OptionalMinorUnits(m.minAmount),
             maxAmount |-> OptionalMinorUnits(m.maxAmount)]])

-----------------------------------------------------------------------------
(* Request contexts *)

\* A context with no invocation in it.
IdleProc ==
    [pc |-> "idle",            \* idle, awaitToken, awaitApi, done
     op |-> "none",
     input |-> None,           \* the request body / the library call's argument
     calledAt |-> 0,           \* Date.now() when it entered getAccessToken
     token |-> None,           \* the access token getAccessToken returned
     tokenExpiresAt |-> None,  \* expiresAt of that token
     tokenRequestsSent |-> 0,  \* token-endpoint POSTs of this invocation
     tokenRequestNo |-> 0,     \* ordinal of its token-endpoint POST
     tokenResponse |-> None,   \* the token endpoint's answer to it
     apiCall |-> None,         \* the gateway request it sent
     apiRequestsSent |-> 0,    \* gateway requests of this invocation
     gw |-> None,              \* the gateway's answer
     result |-> None,          \* what the library function returned or threw
     branch |-> "none",        \* the status block the webhook handler ran
     response |-> None]        \* the handler's HTTP response

\* The createPayment request of an invocation.
RequestOf(rec) ==
    IF rec.op = "createHandler" THEN CreateRequestOf(rec.input[1])
    ELSE rec.input[1]

\* The gateway request an invocation sends once it holds a token.
CallOf(rec) ==
    CASE rec.op = "webhookPOST" -> StatusCall(rec.input[1].paymentId)
      [] rec.op = "callbackGET" -> StatusCall(StoredPaymentId)
      [] rec.op = "getAvailablePaymentMethods" -> MethodsCall
      [] OTHER -> CreateCall(RequestOf(rec))

\* The JSON objects the endpoint an invocation calls can answer with.
BodiesOf(rec) ==
    CASE rec.op = "webhookPOST" -> StatusBodies
      [] rec.op = "callbackGET" ->
            {b \in StatusBodies : b.status = rec.input[1].gatewayStatus}
      [] rec.op = "getAvailablePaymentMethods" -> MethodsBodies
      [] OTHER -> CreateBodies

\* The library function's outcome once apiRequest returned `data`.
LibraryResult(rec, data) ==
    CASE rec.op \in {"webhookPOST", "callbackGET"} -> getPaymentStatusResult(data)
      [] rec.op = "getAvailablePaymentMethods" -> getAvailablePaymentMethodsResult(data)
      [] OTHER -> createPaymentResult(RequestOf(rec), data)

\* The handler's response once the library function returned or threw.
HandlerResponse(rec, result) ==
    CASE rec.op = "createHandler" -> CreateHandlerResponse(rec.input[1], result)
      [] rec.op = "webhookPOST" -> WebhookResponse(result)
      [] rec.op = "callbackGET" -> CallbackResponse(rec.input[1], result)
      [] OTHER -> None

\* The invocation ends: the library outcome and the handler's response.
Complete(rec, result) ==
    [rec EXCEPT !.pc = "done",
                !.result = Some(result),
                !.branch = IF rec.op = "webhookPOST" /\ result.ok
                           THEN WebhookBranch(rec.input[1], result.value[1])
                           ELSE "none",
                !.response = HandlerResponse(rec, result)]

\* The handler answers without calling the library.
Respond(rec, response) == [rec EXCEPT !.pc = "done", !.response = response]

EnterApiRequestTrustingCache(p, rec) ==
    LET called == [rec EXCEPT !.calledAt = now] IN
    IF CacheFresh
    THEN /\ staleRequests' = 0
         /\ UNCHANGED <<cachedToken, tokenRequests>>
         /\ proc' = [proc EXCEPT ![p] =
                [called EXCEPT !.token = Some(cachedToken[1].access_token),
                               !.tokenExpiresAt = Some(cachedToken[1].expiresAt),
                               !.pc = "awaitApi", !.apiCall = Some(CallOf(rec)),
                               !.apiRequestsSent = rec.apiRequestsSent + 1]]
    ELSE IF ~credentials
    THEN /\ proc' = [proc EXCEPT ![p] = Complete(called, Thrown(CredentialsError))]
         /\ UNCHANGED <<cachedToken, tokenRequests, staleRequests>>
    ELSE /\ tokenRequests < MaxTokenRequests
         /\ tokenRequests' = tokenRequests + 1
         /\ staleRequests' = staleRequests + 1
         /\ proc' = [proc EXCEPT ![p] =
                [called EXCEPT !.pc = "awaitToken",
                               !.tokenRequestsSent = rec.tokenRequestsSent + 1,
                               !.tokenRequestNo = tokenRequests + 1]]
         /\ UNCHANGED cachedToken

\* apiRequest from its first line to the first request that goes out:
\* getAccessToken (cache hit, or the POST to the token endpoint), getConfig,
\* and on a cache hit the gateway request itself.
EnterApiRequest(p, rec) ==
    LET called == [rec EXCEPT !.calledAt = now] IN
    IF CacheFresh
    THEN /\ staleRequests' = 0
         /\ UNCHANGED <<cachedToken, tokenRequests>>
         /\ LET held == [called EXCEPT !.token = Some(cachedToken[1].access_token),
                                       !.tokenExpiresAt = Some(cachedToken[1].expiresAt)] IN
            proc' = [proc EXCEPT ![p] =
                IF credentials
                THEN [held EXCEPT !.pc = "awaitApi", !.apiCall = Some(CallOf(rec)),
                                      !.apiRequestsSent = rec.apiRequestsSent + 1]
                ELSE Complete(held, Thrown(CredentialsError))]
    ELSE IF ~credentials
    THEN /\ proc' = [proc EXCEPT ![p] = Complete(called, Thrown(CredentialsError))]
         /\ UNCHANGED <<cachedToken, tokenRequests, staleRequests>>
    ELSE /\ tokenRequests < MaxTokenRequests
         /\ tokenRequests' = tokenRequests + 1
         /\ staleRequests' = staleRequests + 1
         /\ proc' = [proc EXCEPT ![p] =
                [called EXCEPT !.pc = "awaitToken",
                               !.tokenRequestsSent = rec.tokenRequestsSent + 1,
                               !.tokenRequestNo = tokenRequests + 1]]
         /\ UNCHANGED cachedToken

\* An invocation of `op` on `input` in context p.
Invocation(op, input) == [IdleProc EXCEPT !.op = op, !.input = input]

\* POST /api/payment/create
StartCreateHandler(p) ==
    /\ proc[p].pc = "idle"
    /\ \E body \in CreateHandlerBodies :
        LET rec == Invocation("createHandler", Some(body)) IN
        IF CreateHandlerEarly(body) # None
        THEN /\ proc' = [proc EXCEPT ![p] = Respond(rec, CreateHandlerEarly(body))]
             /\ UNCHANGED <<cachedToken, tokenRequests, staleRequests>>
        ELSE EnterApiRequest(p, rec)
    /\ UNCHANGED <<now, credentials, helperVars>>

\* createPayment called by other server code with a request of `requests`
StartCreatePaymentFrom(p, requests) ==
    /\ proc[p].pc = "idle"
    /\ \E request \in requests :
        EnterApiRequest(p, Invocation("createPayment", Some(request)))
    /\ UNCHANGED <<now, credentials, helperVars>>

StartCreatePayment(p) == StartCreatePaymentFrom(p, CreateRequests)

\* Customers whose names exercise the trimming, the cut at 45 characters and
\* the character class of the card holder.
ShapingCustomers ==
    {None,
     Some([firstName |-> <<"J", "a", "n">>, lastName |-> <<"K", "o", "s">>]),
     Some([firstName |-> <<>>, lastName |-> <<>>]),
     Some([firstName |-> <<"#">>, lastName |-> <<>>]),
     Some([firstName |-> <<" ", "J", "'", "n">>,
           lastName |-> <<"N", "o", "v", "'", "k", " ">>]),
     Some([firstName |-> Repeat("a", 44), lastName |-> <<"b", "c", "d">>]),
     Some([firstName |-> Repeat("#", 40)
                            \o <<"a", "b", "c", "d", "e", "f", "g", "h", "i", "j">>,
           lastName |-> <<"x", "y", "z">>])}

\* Merchant references with and without whitespace.
ShapingReferences ==
    {<<"O", "R", "D", "E", "R", " ", "1", "2", "3", " ", "A">>,
     <<" ", "O", "R", "D", "\t", "\n", "7", " ">>,
     <<"O", "R", "D", "-", "1">>,
     <<" ">>}

\* Return URLs with a query string, without one, with two '?', and with
\* nothing before the '?'.
ShapingReturnUrls ==
    {<<"https", "://", "shop.example", "/done", "?", "orderId=", "1">>,
     <<"https", "://", "shop.example", "/done">>,
     <<"https", "://", "shop.example", "/done", "?", "a=1", "?", "b=2">>,
     <<"?", "orderId=", "1">>}

\* `customerIpAddress`: a string, the empty string included.
ShapingIpAddresses == {<<"10.0.0.1">>, <<>>}

\* Requests to createPayment called directly that vary the strings
\* createPayment shapes: names and references, then URLs and addresses.
ShapingRequests ==
    [paymentMethod : {"CARD_PAY", "BANK_TRANSFER"}, amount : {7950}, currency : {"EUR"},
     merchantReference : ShapingReferences,
     customer : ShapingCustomers,
     returnUrl : {<<"https", "://", "shop.example", "/done", "?", "orderId=", "1">>},
     customerIpAddress : {<<"10.0.0.1">>}]
    \cup
    [paymentMethod : Methods, amount : {7950}, currency : {"EUR"},
     merchantReference : {<<"O", "R", "D", "-", "1">>},
     customer : {None},
     returnUrl : ShapingReturnUrls,
     customerIpAddress : ShapingIpAddresses]

StartShapedCreatePayment(p) == StartCreatePaymentFrom(p, ShapingRequests)

\* getAvailablePaymentMethods called by other server code
StartGetAvailablePaymentMethods(p) ==
    /\ proc[p].pc = "idle"
    /\ EnterApiRequest(p, Invocation("getAvailablePaymentMethods", None))
    /\ UNCHANGED <<now, credentials, helperVars>>

\* POST /api/payment/webhook
StartWebhookPOST(p) ==
    /\ proc[p].pc = "idle"
    /\ \E payload \in WebhookPayloads :
        LET rec == Invocation("webhookPOST", Some(payload)) IN
        IF WebhookEarly(payload) # None
        THEN /\ proc' = [proc EXCEPT ![p] = Respond(rec, WebhookEarly(payload))]
             /\ UNCHANGED <<cachedToken, tokenRequests, staleRequests>>
        ELSE EnterApiRequest(p, rec)
    /\ UNCHANGED <<now, credentials, helperVars>>

\* GET /api/payment/callback
StartCallbackGET(p) ==
    /\ proc[p].pc = "idle"
    /\ \E query \in CallbackQueries :
        LET rec == Invocation("callbackGET", Some(query)) IN
        IF CallbackEarly(query) # None
        THEN /\ proc' = [proc EXCEPT ![p] = Respond(rec, CallbackEarly(query))]
             /\ UNCHANGED <<cachedToken, tokenRequests, staleRequests>>
        ELSE EnterApiRequest(p, rec)
    /\ UNCHANGED <<now, credentials, helperVars>>

\* GET /api/payment/webhook
WebhookGET(p) ==
    /\ proc[p].pc = "idle"
    /\ proc' = [proc EXCEPT ![p] =
            Respond(Invocation("webhookGET", None),
                    Json(200, [status |-> "Webhook endpoint active"]))]
    /\ UNCHANGED <<cachedToken, now, credentials, tokenRequests, staleRequests, helperVars>>

TokenResponseFirstWriterWins(p) ==
    /\ proc[p].pc = "awaitToken"
    /\ \E out \in TokenOutcomes(proc[p].tokenRequestNo) :
        LET rec == [proc[p] EXCEPT !.tokenResponse = Some(out)]
            r == TokenResult(out) IN
        IF r.ok
        THEN /\ cachedToken' = IF cachedToken = None THEN Some(NewToken(out))
                                ELSE cachedToken
             /\ staleRequests' = 0
             /\ LET held == [rec EXCEPT !.token = r.value,
                                     !.tokenExpiresAt = Some(NewToken(out).expiresAt)] IN
                proc' = [proc EXCEPT ![p] =
                    IF credentials
                    THEN [held EXCEPT !.pc = "awaitApi", !.apiCall = Some(CallOf(rec)),
                                      !.apiRequestsSent = rec.apiRequestsSent + 1]
                    ELSE Complete(held, Thrown(CredentialsError))]
        ELSE /\ proc' = [proc EXCEPT ![p] = Complete(rec, r)]
             /\ UNCHANGED <<cachedToken, staleRequests>>
    /\ UNCHANGED <<now, credentials, tokenRequests, helperVars>>

\* The token endpoint answers the POST of context p; getAccessToken stores
\* and returns the token, getConfig reads the credentials again and
\* apiRequest sends the gateway request.
TokenResponse(p) ==
    /\ proc[p].pc = "awaitToken"
    /\ \E out \in TokenOutcomes(proc[p].tokenRequestNo) :
        LET rec == [proc[p] EXCEPT !.tokenResponse = Some(out)]
            r == TokenResult(out) IN
        IF r.ok
        THEN /\ cachedToken' = Some(NewToken(out))
             /\ staleRequests' = 0
             /\ LET held == [rec EXCEPT !.token = r.value,
                                     !.tokenExpiresAt = Some(NewToken(out).expiresAt)] IN
                proc' = [proc EXCEPT ![p] =
                    IF credentials
                    THEN [held EXCEPT !.pc = "awaitApi", !.apiCall = Some(CallOf(rec)),
                                      !.apiRequestsSent = rec.apiRequestsSent + 1]
                    ELSE Complete(held, Thrown(CredentialsError))]
        ELSE /\ proc' = [proc EXCEPT ![p] = Complete(rec, r)]
             /\ UNCHANGED <<cachedToken, staleRequests>>
    /\ UNCHANGED <<now, credentials, tokenRequests, helperVars>>

ApiResponseRetryingOnce(p) ==
    /\ proc[p].pc = "awaitApi"
    /\ \E gw \in GatewayOutcomes(BodiesOf(proc[p])) :
        LET rec == [proc[p] EXCEPT !.gw = Some(gw)]
            api == ParseApiResponse(gw) IN
        proc' = [proc EXCEPT ![p] =
            IF ~api.ok /\ rec.apiRequestsSent < 2
            THEN [proc[p] EXCEPT !.apiRequestsSent = rec.apiRequestsSent + 1]
            ELSE Complete(rec, IF api.ok THEN LibraryResult(rec, api.value[1]) ELSE api)]
    /\ UNCHANGED <<cachedToken, now, credentials, tokenRequests, staleRequests, helperVars>>

\* The gateway answers the request of context p; apiRequest parses the
\* answer, the library function and the handler finish.
ApiResponse(p) ==
    /\ proc[p].pc = "awaitApi"
    /\ \E gw \in GatewayOutcomes(BodiesOf(proc[p])) :
        LET rec == [proc[p] EXCEPT !.gw = Some(gw)]
            api == ParseApiResponse(gw) IN
        proc' = [proc EXCEPT ![p] =
            Complete(rec, IF api.ok THEN LibraryResult(rec, api.value[1]) ELSE api)]
    /\ UNCHANGED <<cachedToken, now, credentials, tokenRequests, staleRequests, helperVars>>

\* The response of context p is delivered; the context is free again.
Return(p) ==
    /\ proc[p].pc = "done"
    /\ proc' = [proc EXCEPT ![p] = IdleProc]
    /\ UNCHANGED <<cachedToken, now, credentials, tokenRequests, staleRequests, helperVars>>

\* The wall clock advances.
Tick ==
    /\ now < MaxTicks * TickMs
    /\ now' = now + TickMs
    /\ UNCHANGED <<cachedToken, credentials, tokenRequests, staleRequests, proc, helperVars>>

\* The environment loses TATRAPAY_CLIENT_ID or TATRAPAY_CLIENT_SECRET;
\* getCredentials reads process.env at every call.
UnsetCredentials ==
    /\ credentials
    /\ credentials' = FALSE
    /\ UNCHANGED <<cachedToken, now, tokenRequests, staleRequests, proc, helperVars>>

ClientInit ==
    /\ cachedToken = None
    /\ now = 0
    /\ credentials \in BOOLEAN
    /\ tokenRequests = 0
    /\ staleRequests = 0
    /\ proc = [p \in Procs |-> IdleProc]

HelpersIdle == statusArg = "" /\ helperRet = NotCalled

Init == ClientInit /\ HelpersIdle

-----------------------------------------------------------------------------
(* Specifications *)

\* The token cache under concurrent library calls and a moving clock.
NextToken ==
    \/ \E p \in Procs : StartGetAvailablePaymentMethods(p)
    \/ \E p \in Procs : TokenResponse(p)
    \/ \E p \in Procs : ApiResponse(p)
    \/ \E p \in Procs : Return(p)
    \/ Tick

Spec == Init /\ [][NextToken]_vars

\* Payment creation, one request at a time.
NextCreate ==
    \/ StartCreateHandler("p1")
    \/ StartCreatePayment("p1")
    \/ TokenResponse("p1")
    \/ ApiResponse("p1")
    \/ Return("p1")

SpecCreate == Init /\ [][NextCreate]_vars

\* createPayment on requests whose strings it has to shape.
NextShaping ==
    \/ StartShapedCreatePayment("p1")
    \/ TokenResponse("p1")
    \/ ApiResponse("p1")
    \/ Return("p1")

SpecShaping == Init /\ [][NextShaping]_vars

\* The three library operations when the credentials go missing.
NextCredentials ==
    \/ StartCreatePayment("p1")
    \/ StartWebhookPOST("p1")
    \/ StartGetAvailablePaymentMethods("p1")
    \/ TokenResponse("p1")
    \/ ApiResponse("p1")
    \/ Return("p1")
    \/ Tick
    \/ UnsetCredentials

SpecCredentials == Init /\ [][NextCredentials]_vars

\* Webhook deliveries and browser callbacks, two requests at a time.
NextWebhook ==
    \/ \E p \in Procs : StartWebhookPOST(p)
    \/ \E p \in Procs : StartCallbackGET(p)
    \/ \E p \in Procs : WebhookGET(p)
    \/ \E p \in Procs : TokenResponse(p)
    \/ \E p \in Procs : ApiResponse(p)
    \/ \E p \in Procs : Return(p)

SpecWebhook == Init /\ [][NextWebhook]_vars

\* The status helpers applied to every status string.
HelpersInit == HelperInit /\ ClientInit /\ credentials

HelpersNext ==
    \/ NewStatus
    \/ CallIsPaymentSuccessful
    \/ CallIsPaymentFailed
    \/ CallIsPaymentPending
    \/ CallMapToInternalStatus

SpecHelpers == HelpersInit /\ [][HelpersNext]_vars

-----------------------------------------------------------------------------
(* Properties of the token cache, under Spec *)

\* Context p enters getAccessToken in this step (every invocation of Spec
\* reaches getAccessToken as soon as it starts).
EntersGetAccessToken(p) == proc[p].pc = "idle" /\ proc'[p].pc # "idle"

\* C1: a getAccessToken call made while a token is cached and
\* now < expiry - 60000 returns that cached access token, sends no request to
\* the token endpoint and leaves the cache unchanged; and whenever a refresh
\* stores a token, its expiry is the time of the store + expires_in * 1000.
C1_CacheHit ==
    [][/\ \A p \in Procs :
            (/\ EntersGetAccessToken(p)
             /\ cachedToken # None
             /\ now < cachedToken[1].expiresAt - 60000)
            => /\ proc'[p].token = Some(cachedToken[1].access_token)
               /\ proc'[p].tokenRequestsSent = 0
               /\ tokenRequests' = tokenRequests
               /\ cachedToken' = cachedToken
       /\ cachedToken' # cachedToken
            => /\ cachedToken' # None
               /\ cachedToken'[1].expiresAt
                    = now + cachedToken'[1].expires_in * 1000]_vars

\* A call made after the token was stored, at a later time, was served
\* from the cache.
C1_Witness ==
    \E p \in Procs :
        /\ proc[p].pc = "awaitApi"
        /\ proc[p].tokenRequestsSent = 0
        /\ cachedToken # None
        /\ proc[p].token = Some(cachedToken[1].access_token)
        /\ cachedToken[1].expiresAt - cachedToken[1].expires_in * 1000 < proc[p].calledAt
        /\ proc[p].calledAt < cachedToken[1].expiresAt - 60000

-----------------------------------------------------------------------------
(* Properties of payment creation, under SpecCreate *)

\* createPayment was called in this invocation and has returned or thrown.
CreatePaymentEnded(rec) ==
    /\ rec.op \in {"createHandler", "createPayment"}
    /\ rec.pc = "done"
    /\ rec.result # None

\* The gateway answered with a JSON object.
GatewayObject(rec) ==
    /\ rec.gw # None
    /\ rec.gw[1].kind = "http"
    /\ rec.gw[1].body.kind = "object"

\* C3: for a CARD_PAY request createPayment returns a PaymentResponse only if
\* the gateway response carries a non-empty tatraPayPlusUrl, and then the
\* returned redirectUrl is that URL; when the gateway's response carries no
\* redirect URL, createPayment throws and returns nothing.
C3_CardPayNeedsRedirectUrl ==
    \A p \in Procs :
        LET rec == proc[p] IN
        (CreatePaymentEnded(rec) /\ RequestOf(rec).paymentMethod = "CARD_PAY")
        => /\ rec.result[1].ok
                => /\ GatewayObject(rec)
                   /\ rec.gw[1].body.tatraPayPlusUrl \notin {None, Some("")}
                   /\ rec.result[1].value[1].redirectUrl
                        = rec.gw[1].body.tatraPayPlusUrl
           /\ (/\ rec.gw # None
               /\ rec.gw[1].kind = "http"
               /\ \/ rec.gw[1].body.kind # "object"
                  \/ rec.gw[1].body.tatraPayPlusUrl \in {None, Some("")})
                => /\ ~rec.result[1].ok
                   /\ rec.result[1].error # None
                   /\ rec.result[1].value = None

\* The gateway answered a CARD_PAY creation 200 with a JSON object that has
\* no redirect URL, and the create handler answered 500.
C3_Witness ==
    \E p \in Procs :
        LET rec == proc[p] IN
        /\ CreatePaymentEnded(rec)
        /\ rec.op = "createHandler"
        /\ RequestOf(rec).paymentMethod = "CARD_PAY"
        /\ GatewayObject(rec)
        /\ rec.gw[1].status = 200
        /\ rec.gw[1].body.tatraPayPlusUrl = None
        /\ ~rec.result[1].ok
        /\ rec.response[1].status = 500

\* C4: for a BANK_TRANSFER request a 2xx gateway response without
\* bankTransferData makes createPayment throw; createPayment never returns a
\* PaymentResponse without bankTransferInfo, and the create handler never
\* answers success:true without a bankTransfer block.
C4_BankTransferNeedsInstructions ==
    \A p \in Procs :
        LET rec == proc[p] IN
        (CreatePaymentEnded(rec) /\ RequestOf(rec).paymentMethod = "BANK_TRANSFER")
        => /\ (/\ GatewayObject(rec)
               /\ rec.gw[1].status \in 200..299
               /\ rec.gw[1].body.bankTransferData = None)
                => ~rec.result[1].ok
           /\ rec.result[1].ok
                => rec.result[1].value[1].bankTransferInfo # None
           /\ (rec.op = "createHandler" /\ rec.response[1].body.success)
                => rec.response[1].body.bankTransfer # None

\* C5: when the gateway answers a creation request with a non-2xx status or
\* with a body that is not JSON, createPayment throws, and the create handler
\* answers HTTP 500 with success:false and the message of that error.
C5_GatewayFailureIs500 ==
    \A p \in Procs :
        LET rec == proc[p] IN
        (/\ rec.op \in {"createHandler", "createPayment"}
         /\ rec.gw # None
         /\ rec.gw[1].kind = "http"
         /\ (rec.gw[1].status \notin 200..299 \/ rec.gw[1].body.kind = "text"))
        => /\ rec.pc = "done"
           /\ rec.result # None
           /\ ~rec.result[1].ok
           /\ rec.result[1].value = None
           /\ rec.op = "createHandler"
                => /\ rec.response # None
                   /\ rec.response[1].status = 500
                   /\ rec.response[1].body.success = FALSE
                   /\ rec.response[1].body.error =
                        Some(IF rec.gw[1].body.kind = "text"
                             THEN [text |-> "TatraPay returned invalid response: ",
                                   status |-> None,
                                   data |-> Some(rec.gw[1].body)]
                             ELSE [text |-> "TatraPay API error: ",
                                   status |-> Some(rec.gw[1].status),
                                   data |-> Some(rec.gw[1].body)])

\* The gateway answered 400 with a JSON object and the create handler
\* answered 500.
C5_Witness ==
    \E p \in Procs :
        LET rec == proc[p] IN
        /\ rec.op = "createHandler"
        /\ GatewayObject(rec)
        /\ rec.gw[1].status = 400
        /\ rec.response[1].status = 500

\* A required field of a create request body is missing (or falsy).
MissingField(body) ==
    \/ body.kind # "object"
    \/ body.orderId = <<>> \/ body.paymentMethod = "" \/ body.amount = 0
    \/ body.email = ""

\* The payment method of a create request body is not a supported one.
UnsupportedMethod(body) ==
    /\ body.kind = "object"
    /\ body.paymentMethod \notin {"CARD_PAY", "BANK_TRANSFER"}

\* Context p sent nothing to the token endpoint or the gateway.
NoRequestSent(p) ==
    /\ proc[p].tokenRequestsSent = 0
    /\ proc[p].apiCall = None
    /\ proc[p].gw = None

\* C16: a create request in which orderId, paymentMethod, amount or
\* customer.email is missing, or whose paymentMethod is unsupported, is
\* answered 400 with success:false and no token or gateway request; any other
\* create request is never answered 400.
C16_InvalidRequestIs400 ==
    \A p \in Procs :
        proc[p].op = "createHandler"
        => LET body == proc[p].input[1] IN
           IF MissingField(body) \/ UnsupportedMethod(body)
           THEN /\ proc[p].pc = "done"
                /\ proc[p].response[1].status = 400
                /\ proc[p].response[1].body.success = FALSE
                /\ NoRequestSent(p)
           ELSE proc[p].response # None => proc[p].response[1].status # 400

\* Context p holds a create request the handler answered with success.
CreatedBy(p, method) ==
    /\ proc[p].op = "createHandler" /\ proc[p].pc = "done"
    /\ proc[p].input[1].kind = "object"
    /\ proc[p].input[1].paymentMethod = method
    /\ proc[p].response[1].status = 200
    /\ proc[p].response[1].body.success

\* C17: the create handler's response to a CARD_PAY request it answers with
\* success carries a non-empty redirectUrl, the gateway's tatraPayPlusUrl,
\* and no bankTransfer block, whether or not the gateway response has
\* bankTransferData.
C17_CardPayResponse ==
    \A p \in Procs :
        CreatedBy(p, "CARD_PAY")
        => LET out == proc[p].response[1].body IN
           /\ out.redirectUrl \notin {None, Some("")}
           /\ out.redirectUrl = proc[p].gw[1].body.tatraPayPlusUrl
           /\ out.bankTransfer = None
           /\ out.paymentId = proc[p].gw[1].body.paymentId

\* The gateway answered a CARD_PAY creation with a redirect URL and with
\* bank-transfer data, and the handler answered with success.
C17_Witness ==
    \E p \in Procs :
        /\ CreatedBy(p, "CARD_PAY")
        /\ proc[p].gw[1].body.tatraPayPlusUrl = Some("https://gw/pay-1")
        /\ proc[p].gw[1].body.bankTransferData # None
        /\ proc[p].result[1].value[1].bankTransferInfo # None

\* C18: when the gateway answers a BANK_TRANSFER creation with
\* bankTransferData, the bankTransferInfo createPayment returns, and the
\* bankTransfer block of the handler's response, carry the gateway's iban,
\* bic and variableSymbol, the request's currency, and the requested amount
\* of minor units divided by 100 (10000 gives 100, 7950 gives 79.50).
C18_BankTransferBlock ==
    \A p \in Procs :
        LET rec == proc[p] IN
        (/\ CreatePaymentEnded(rec)
         /\ RequestOf(rec).paymentMethod = "BANK_TRANSFER"
         /\ rec.result[1].ok
         /\ rec.gw[1].body.bankTransferData # None)
        => LET data == rec.gw[1].body.bankTransferData[1]
               info == rec.result[1].value[1].bankTransferInfo IN
           /\ info # None
           /\ info[1].iban = data.iban
           /\ info[1].bic = data.bic
           /\ info[1].variableSymbol = data.variableSymbol
           /\ info[1].currency = RequestOf(rec).currency
           /\ info[1].amount.hundredths \in 0..99
           /\ info[1].amount.whole * 100 + info[1].amount.hundredths
                = RequestOf(rec).amount
           /\ RequestOf(rec).amount = 10000
                => info[1].amount = [whole |-> 100, hundredths |-> 0]
           /\ rec.op = "createHandler"
                => /\ rec.response[1].status = 200
                   /\ rec.response[1].body.bankTransfer = info

\* A BANK_TRANSFER request for 7950 was answered with a transfer block of
\* amount 79.50.
C18_Witness ==
    \E p \in Procs :
        /\ CreatedBy(p, "BANK_TRANSFER")
        /\ proc[p].input[1].amount = 7950
        /\ proc[p].response[1].body.bankTransfer # None
        /\ proc[p].response[1].body.bankTransfer[1].amount
                = [whole |-> 79, hundredths |-> 50]

\* C19 as stated: the amount createPayment reports in bankTransferInfo is the
\* requested amount in integer minor units.
C19_AmountsInMinorUnits ==
    \A p \in Procs :
        LET rec == proc[p] IN
        (/\ CreatePaymentEnded(rec)
         /\ rec.result[1].ok
         /\ rec.result[1].value[1].bankTransferInfo # None)
        => rec.result[1].value[1].bankTransferInfo[1].amount
                = [whole |-> RequestOf(rec).amount, hundredths |-> 0]

\* C19 amended: the only amount createPayment reports is
\* bankTransferInfo.amount, and it is in major units: 100 times it is the
\* requested amount of minor units, so it differs from the requested amount
\* and has a fractional part whenever the request is no multiple of 100.
C19_AmountsInMajorUnits ==
    \A p \in Procs :
        LET rec == proc[p] IN
        (CreatePaymentEnded(rec) /\ rec.result[1].ok)
        => LET payment == rec.result[1].value[1] IN
           /\ DOMAIN payment = {"paymentId", "status", "redirectUrl", "bankTransferInfo"}
           /\ payment.bankTransferInfo # None
                => LET amount == payment.bankTransferInfo[1].amount IN
                   /\ amount.whole * 100 + amount.hundredths = RequestOf(rec).amount
                   /\ amount # [whole |-> RequestOf(rec).amount, hundredths |-> 0]
                   /\ amount.hundredths = 0 <=> RequestOf(rec).amount % 100 = 0

\* createPayment called directly for 10000 minor units returned a
\* bankTransferInfo of amount 100.
C19_Witness ==
    \E p \in Procs :
        LET rec == proc[p] IN
        /\ rec.op = "createPayment"
        /\ CreatePaymentEnded(rec)
        /\ rec.result[1].ok
        /\ rec.input[1].amount = 10000
        /\ rec.result[1].value[1].bankTransferInfo # None
        /\ rec.result[1].value[1].bankTransferInfo[1].amount
                = [whole |-> 100, hundredths |-> 0]

\* C20: for every payment method createPayment accepts, the body it sends
\* to POST /v1/payments has exactly one of cardDetail and bankTransfer:
\* cardDetail with a non-empty cardHolder for CARD_PAY, an empty bankTransfer
\* object for BANK_TRANSFER; never both and never neither.
C20_ExactlyOneMethodStructure ==
    \A p \in Procs :
        LET rec == proc[p] IN
        (rec.op \in {"createHandler", "createPayment"} /\ rec.apiCall # None)
        => LET sent == rec.apiCall[1].body[1]
               method == RequestOf(rec).paymentMethod IN
           /\ (sent.cardDetail # None) # (sent.bankTransfer # None)
           /\ method = "CARD_PAY"
                => /\ sent.cardDetail # None
                   /\ sent.cardDetail[1].cardHolder # <<>>
           /\ method = "BANK_TRANSFER"
                => sent.bankTransfer = Some([kind |-> "object"])

-----------------------------------------------------------------------------
(* Properties of the status helpers, under SpecHelpers *)

\* Helper h was not called on statusArg, or returned v.
Returns(h, v) == helperRet[h] \in {None, Some(v)}

\* All of the helpers hs were called on statusArg.
CalledAll(hs) == \A h \in hs : helperRet[h] # None

C7_FailedStatuses ==
    IF statusArg \in {"RJCT", "CANC"}
    THEN /\ Returns("isPaymentFailed", TRUE)
         /\ Returns("isPaymentSuccessful", FALSE)
         /\ Returns("mapToInternalStatus", "failed")
    ELSE Returns("isPaymentFailed", FALSE)

\* The three helpers were called on CANC.
C7_Witness ==
    /\ statusArg = "CANC"
    /\ CalledAll({"isPaymentSuccessful", "isPaymentFailed", "mapToInternalStatus"})

C9_NonIsoSuccess ==
    statusArg \in {"OK", "AUTH_DONE"} => Returns("isPaymentSuccessful", TRUE)

-----------------------------------------------------------------------------
(* Properties of the webhook handler, under SpecWebhook *)

\* Context p holds a webhook delivery whose body parsed to an object.
Delivery(p) ==
    /\ proc[p].op = "webhookPOST"
    /\ proc[p].input[1].kind = "object"

\* C10: two webhook deliveries with the same paymentId, whatever the status
\* in their bodies, send the same GET /v1/payments/{paymentId}/status; and
\* when the gateway answers both the same way, both run the same status block
\* and answer the same response.
C10_WebhookTrustsGatewayOnly ==
    \A p, q \in Procs :
        (/\ Delivery(p) /\ Delivery(q)
         /\ proc[p].input[1].paymentId = proc[q].input[1].paymentId)
        => /\ \A r \in {p, q} :
                proc[r].apiCall # None
                => /\ proc[r].apiCall[1].method = "GET"
                   /\ proc[r].apiCall[1].endpoint
                        = <<"/v1/payments/", proc[r].input[1].paymentId, "/status">>
           /\ (/\ proc[p].pc = "done" /\ proc[q].pc = "done"
               /\ proc[p].gw = proc[q].gw)
                => /\ proc[p].branch = proc[q].branch
                   /\ proc[p].response = proc[q].response

\* Two deliveries for one payment, one with ACSC and one with RJCT in the
\* body, were both verified as RJCT by the gateway.
C10_Witness ==
    \E p, q \in Procs :
        /\ Delivery(p) /\ Delivery(q)
        /\ proc[p].input[1].paymentId = proc[q].input[1].paymentId
        /\ proc[p].input[1].status = "ACSC"
        /\ proc[q].input[1].status = "RJCT"
        /\ proc[p].pc = "done" /\ proc[q].pc = "done"
        /\ proc[p].gw # None /\ proc[p].gw = proc[q].gw
        /\ proc[p].result[1].ok
        /\ proc[p].result[1].value[1].status = "RJCT"
        /\ proc[p].branch = "failed"

\* The two responses the webhook handler has.
Received == Json(200, [received |-> TRUE])

ProcessingFailed == Json(500, [error |-> Some(Literal("Webhook processing failed"))])

\* C11: a finished webhook POST answered 200 {received: true} or 500, nothing
\* else; 200 exactly when the body parsed to an object, a token was obtained
\* and getPaymentStatus returned a status (whatever that status is); 500 when
\* the body did not parse, the token exchange failed or the status re-fetch
\* failed.
C11_WebhookResponses ==
    \A p \in Procs :
        LET rec == proc[p] IN
        (rec.op = "webhookPOST" /\ rec.pc = "done")
        => /\ rec.response \in {Received, ProcessingFailed}
           /\ rec.response = Received
                <=> /\ rec.input[1].kind = "object"
                    /\ rec.token # None
                    /\ rec.gw # None
                    /\ rec.gw[1].kind = "http"
                    /\ rec.gw[1].status \in 200..299
                    /\ rec.gw[1].body.kind = "object"
                    /\ rec.gw[1].body.hasInstructedAmount
                    /\ rec.result # None
                    /\ rec.result[1].ok
                    /\ rec.result[1].value[1].status = rec.gw[1].body.status
           /\ (rec.input[1].kind = "text" \/ rec.token = None
                    \/ rec.result = None \/ ~rec.result[1].ok)
                => rec.response = ProcessingFailed

\* One delivery was verified as pending and answered 200 while another
\* delivery, whose token exchange failed, was answered 500.
C11_Witness ==
    \E p, q \in Procs :
        /\ Delivery(p) /\ proc[p].pc = "done"
        /\ proc[p].result[1].ok
        /\ proc[p].result[1].value[1].status = "PDNG"
        /\ proc[p].response = Received
        /\ Delivery(q) /\ proc[q].pc = "done"
        /\ proc[q].tokenRequestsSent = 1 /\ proc[q].token = None
        /\ proc[q].response = ProcessingFailed

\* C12: two deliveries of the same webhook (same payment id, same status in
\* the body), each verified by the gateway as the same status, are answered
\* with the same response; and every delivery that got a token sent its own
\* GET /v1/payments/{paymentId}/status and finished only on its answer.
C12_WebhookIdempotent ==
    \A p, q \in Procs :
        (/\ p # q
         /\ Delivery(p) /\ Delivery(q)
         /\ proc[p].input = proc[q].input
         /\ proc[p].pc = "done" /\ proc[q].pc = "done")
        => /\ (/\ proc[p].result # None /\ proc[q].result # None
               /\ proc[p].result[1].ok /\ proc[q].result[1].ok
               /\ proc[p].result[1].value[1].status = proc[q].result[1].value[1].status)
                => /\ proc[p].response = proc[q].response
                   /\ proc[p].branch = proc[q].branch
           /\ \A r \in {p, q} :
                proc[r].token # None
                => /\ proc[r].apiCall
                        = Some([method |-> "GET",
                                endpoint |-> <<"/v1/payments/", proc[r].input[1].paymentId,
                                               "/status">>,
                                ipAddress |-> None,
                                redirectUri |-> None,
                                preferredMethod |-> None,
                                body |-> None])
                   /\ proc[r].gw # None

\* The same webhook was delivered twice, the second delivery arriving after
\* the first was answered from its own gateway call; both were verified as
\* ACSC and answered 200.
C12_Witness ==
    \E p, q \in Procs :
        /\ p # q
        /\ Delivery(p) /\ Delivery(q)
        /\ proc[p].input = proc[q].input
        /\ proc[p].pc = "done" /\ proc[q].pc = "done"
        /\ proc[p].gw # None /\ proc[q].gw # None
        /\ proc[p].result[1].ok /\ proc[q].result[1].ok
        /\ proc[p].result[1].value[1].status = "ACSC"
        /\ proc[q].result[1].value[1].status = "ACSC"
        /\ proc[p].calledAt <= proc[q].calledAt
        /\ proc[p].response = Received /\ proc[q].response = Received

-----------------------------------------------------------------------------
(* Properties of the callback handler, under SpecWebhook *)

\* Context p holds a callback GET that has been answered.
CallbackDone(p) == proc[p].op = "callbackGET" /\ proc[p].pc = "done"

\* The outcome page a response redirects to.
PageOf(response) == response[1].body.page

\* C13: with the credentials configured, a callback GET with an orderId, for
\* a payment the gateway holds as RJCT or CANC, redirects to the 'failed' page
\* with that order id as a query parameter.
C13_RejectedGoesToFailed ==
    \A p \in Procs :
        (/\ CallbackDone(p)
         /\ credentials
         /\ Truthy(proc[p].input[1].orderId)
         /\ proc[p].input[1].gatewayStatus \in {"RJCT", "CANC"})
        => /\ PageOf(proc[p].response) = "failed"
           /\ proc[p].response[1].body.orderId = proc[p].input[1].orderId

\* C14: a callback GET without an orderId is answered with a redirect to the
\* 'error' page, and sends no request to the token endpoint or the gateway.
C14_MissingOrderIdIsError ==
    \A p \in Procs :
        (/\ proc[p].op = "callbackGET"
         /\ proc[p].input[1].orderId = None)
        => /\ proc[p].pc = "done"
           /\ proc[p].response # None
           /\ PageOf(proc[p].response) = "error"
           /\ proc[p].tokenRequestsSent = 0
           /\ proc[p].token = None
           /\ proc[p].apiCall = None
           /\ proc[p].gw = None

\* A callback without orderId was redirected to the error page while the
\* other context was in the middle of a gateway call of its own.
C14_Witness ==
    \E p, q \in Procs :
        /\ CallbackDone(p)
        /\ proc[p].input[1].orderId = None
        /\ proc[p].response = redirectToResult("error", "Missing order ID", None)
        /\ proc[q].pc = "awaitApi"

\* C15: every answered callback GET redirects to one of the four outcome
\* pages; with the credentials configured, an orderId and no failure of the
\* token exchange or the status fetch, the page is 'success' for a payment the gateway holds in a success
\* status, 'failed' for a failure status and 'pending' for any other; and a
\* failed token exchange or status fetch gives 'error'.
C15_CallbackOutcomes ==
    \A p \in Procs :
        CallbackDone(p)
        => LET rec == proc[p]
               held == rec.input[1].gatewayStatus IN
           /\ PageOf(rec.response) \in {"success", "failed", "pending", "error"}
           /\ (rec.result # None /\ ~rec.result[1].ok)
                => PageOf(rec.response) = "error"
           /\ (/\ credentials
               /\ Truthy(rec.input[1].orderId)
               /\ (rec.result = None \/ rec.result[1].ok))
                => PageOf(rec.response) =
                     IF held \in {"ACCC", "ACSC", "ACSP", "ACCP", "ACTC", "ACWC",
                                  "ACWP", "ACFC"}
                     THEN "success"
                     ELSE IF held \in {"RJCT", "CANC"} THEN "failed"
                     ELSE "pending"

-----------------------------------------------------------------------------
(* Properties of the request createPayment sends, under SpecShaping *)

\* The invocation of context p is a createPayment whose gateway request
\* was sent.
SentCreate(p) ==
    /\ proc[p].op = "createPayment"
    /\ proc[p].apiCall # None

\* C21: for every CARD_PAY request the cardHolder sent is non-empty, at most
\* 45 characters long and made of characters of [A-Za-z0-9 .@_-] only; it is
\* 'firstName lastName' trimmed, cut to 45 characters and stripped of every
\* other character, and 'Customer' when the request has no customer or when
\* the stripping leaves nothing.
C21_CardHolder ==
    \A p \in Procs :
        (SentCreate(p) /\ proc[p].input[1].paymentMethod = "CARD_PAY")
        => LET request == proc[p].input[1]
               sent == proc[p].apiCall[1].body[1].cardDetail[1].cardHolder
               cut == IF request.customer = None THEN <<>>
                      ELSE substring(trim(request.customer[1].firstName \o <<" ">>
                                          \o request.customer[1].lastName), 45)
               stripped == SelectSeq(cut, LAMBDA c : c \in CardHolderChars) IN
           /\ sent # <<>>
           /\ Len(sent) <= 45
           /\ \A i \in 1..Len(sent) : sent[i] \in CardHolderChars
           /\ sent = IF request.customer = None \/ stripped = <<>>
                     THEN <<"C", "u", "s", "t", "o", "m", "e", "r">>
                     ELSE stripped

\* A CARD_PAY request whose customer name is longer than 45 characters and
\* has characters outside the class was sent with what is left of the first
\* 45 characters.
C21_Witness ==
    \E p \in Procs :
        /\ SentCreate(p)
        /\ proc[p].input[1].paymentMethod = "CARD_PAY"
        /\ proc[p].input[1].customer # None
        /\ Len(proc[p].input[1].customer[1].firstName) = 50
        /\ proc[p].apiCall[1].body[1].cardDetail[1].cardHolder
              = <<"a", "b", "c", "d", "e">>

\* C22: the merchantReference sent is the merchant reference passed to
\* createPayment with every whitespace character removed and the other
\* characters kept in their order; 'ORDER 123 A' is sent as 'ORDER123A'.
C22_MerchantReference ==
    \A p \in Procs :
        SentCreate(p)
        => LET given == proc[p].input[1].merchantReference
               sent == proc[p].apiCall[1].body[1].merchantReference IN
           /\ \A i \in 1..Len(sent) : sent[i] \notin {" ", "\t", "\n"}
           /\ sent = SelectSeq(given, LAMBDA c : c \notin {" ", "\t", "\n"})
           /\ given = <<"O", "R", "D", "E", "R", " ", "1", "2", "3", " ", "A">>
                => sent = <<"O", "R", "D", "E", "R", "1", "2", "3", "A">>

\* 'ORDER 123 A' was sent as 'ORDER123A'.
C22_Witness ==
    \E p \in Procs :
        /\ SentCreate(p)
        /\ proc[p].input[1].merchantReference
              = <<"O", "R", "D", "E", "R", " ", "1", "2", "3", " ", "A">>
        /\ proc[p].apiCall[1].body[1].merchantReference
              = <<"O", "R", "D", "E", "R", "1", "2", "3", "A">>

\* C23: every creation request sent to the gateway carries the three headers
\* IP-Address, Redirect-URI and Preferred-Method: the caller's IP address,
\* the return URL without its query string and the requested payment
\* method; none of them is omitted.
C23_AllThreeHeaders ==
    \A p \in Procs :
        SentCreate(p)
        => LET request == proc[p].input[1]
               call == proc[p].apiCall[1] IN
           /\ call.ipAddress = Some(request.customerIpAddress)
           /\ call.redirectUri # None
           /\ \E rest \in {<<>>} \cup {SubSeq(request.returnUrl, i, Len(request.returnUrl)) :
                                        i \in 1..Len(request.returnUrl)} :
                /\ request.returnUrl = call.redirectUri[1] \o rest
                /\ rest # <<>> => rest[1] = "?"
                /\ \A i \in 1..Len(call.redirectUri[1]) : call.redirectUri[1][i] # "?"
           /\ call.preferredMethod = Some(request.paymentMethod)

-----------------------------------------------------------------------------
(* Properties of the token exchange and of the credentials, under Spec *)

\* The token endpoint answered the POST of context p with a non-2xx status.
TokenRejected(p) ==
    /\ proc[p].tokenResponse # None
    /\ proc[p].tokenResponse[1].kind # "network"
    /\ proc[p].tokenResponse[1].status \notin 200..299

\* C24 as stated: when the token endpoint answers with a non-success status,
\* getAccessToken fails with an authentication error that carries the
\* response body.
C24_BodyInError ==
    \A p \in Procs :
        TokenRejected(p)
        => /\ proc[p].result # None /\ ~proc[p].result[1].ok
           /\ proc[p].result[1].error[1].text = "TatraPay authentication failed: "
           /\ proc[p].result[1].error[1].data = Some(proc[p].tokenResponse[1].text)

\* C24: when the token endpoint answers with a non-success status,
\* getAccessToken fails with the error 'TatraPay authentication failed:
\* <status>'; the error carries the HTTP status and not the response body, no
\* token is returned and no gateway request is sent.
C24_StatusInError ==
    \A p \in Procs :
        TokenRejected(p)
        => /\ proc[p].result # None /\ ~proc[p].result[1].ok
           /\ proc[p].result[1].error[1].text = "TatraPay authentication failed: "
           /\ proc[p].result[1].error[1].status = Some(proc[p].tokenResponse[1].status)
           /\ proc[p].result[1].error[1].data = None
           /\ proc[p].token = None
           /\ proc[p].apiCall = None

\* A token request was answered 400 with a body, and the call failed.
C24_Witness ==
    \E p \in Procs :
        /\ TokenRejected(p)
        /\ proc[p].tokenResponse[1].status = 400
        /\ proc[p].tokenResponse[1].text = "invalid_client"
        /\ proc[p].pc = "done"
        /\ ~proc[p].result[1].ok

\* C25: while the client id or the client secret is missing, every call of
\* createPayment, getPaymentStatus and getAvailablePaymentMethods fails with
\* an error and sends no request, neither to the token endpoint nor to the
\* gateway, also when the cache holds a token that is still valid.
C25_MissingCredentials ==
    [][\A p \in Procs :
        (/\ ~credentials
         /\ proc[p].pc = "idle" /\ proc'[p].pc # "idle"
         /\ ~(proc'[p].pc = "done" /\ proc'[p].result = None))
        => /\ proc'[p].pc = "done"
           /\ ~proc'[p].result[1].ok
           /\ proc'[p].result[1].error # None
           /\ proc'[p].apiCall = None
           /\ proc'[p].tokenRequestsSent = 0
           /\ tokenRequests' = tokenRequests]_vars

\* Without credentials and with a cached token that is still valid, a
\* library call ended with the credentials error and no request.
C25_Witness ==
    \E p \in Procs :
        /\ ~credentials
        /\ CacheFresh
        /\ proc[p].pc = "done"
        /\ proc[p].calledAt = now
        /\ proc[p].token = Some(cachedToken[1].access_token)
        /\ proc[p].result = Some(Thrown(CredentialsError))
        /\ proc[p].apiCall = None
        /\ proc[p].tokenRequestsSent = 0

\* The token endpoint issued a token to the request of context p.
TokenIssued(rec) ==
    /\ rec.tokenResponse # None
    /\ rec.tokenResponse[1].kind = "token"

\* Context p receives a token from the token endpoint in this step.
Refreshes(p) ==
    /\ proc[p].pc = "awaitToken"
    /\ TokenIssued(proc'[p])

\* C26: under every interleaving of calls that refresh the token at the same
\* time, each successful call returns the access token issued to its own
\* request; the cache is always empty or one whole token whose expiry is the
\* time it was stored plus that token's expires_in; and each refresh that
\* completes replaces the cache with its token, so that the cache ends with
\* the token of the refresh that completed last.
C26_ConcurrentRefresh ==
    /\ [](\A p \in Procs :
            TokenIssued(proc[p])
            => /\ proc[p].tokenResponse[1].access_token = proc[p].tokenRequestNo
               /\ proc[p].token = Some(proc[p].tokenRequestNo))
    /\ [](cachedToken # None
            => /\ cachedToken[1].access_token \in 1..tokenRequests
               /\ \E stored \in 0..MaxTicks :
                    /\ stored * TickSeconds * 1000 <= now
                    /\ cachedToken[1].expiresAt
                         = stored * TickSeconds * 1000 + cachedToken[1].expires_in * 1000
               /\ \A p \in Procs :
                    (TokenIssued(proc[p])
                     /\ proc[p].tokenRequestNo = cachedToken[1].access_token)
                    => cachedToken[1].expires_in = proc[p].tokenResponse[1].expires_in)
    /\ [][IF \E p \in Procs : Refreshes(p)
          THEN \E p \in Procs :
                /\ Refreshes(p)
                /\ cachedToken' =
                     Some([access_token |-> proc[p].tokenRequestNo,
                           expires_in |-> proc'[p].tokenResponse[1].expires_in,
                           expiresAt |-> now
                              + proc'[p].tokenResponse[1].expires_in * 1000])
          ELSE cachedToken' = cachedToken]_vars

\* Two refreshes were in flight together: the second request was answered
\* first, the first one last, and the cache holds the first one's token.
C26_Witness ==
    \E p, q \in Procs :
        /\ TokenIssued(proc[p]) /\ TokenIssued(proc[q])
        /\ proc[p].tokenRequestNo = 1 /\ proc[p].token = Some(1)
        /\ proc[q].tokenRequestNo = 2 /\ proc[q].token = Some(2)
        /\ cachedToken # None
        /\ cachedToken[1].access_token = 1
        /\ cachedToken[1].expires_in = proc[p].tokenResponse[1].expires_in
        /\ cachedToken[1].expires_in # proc[q].tokenResponse[1].expires_in

\* The gateway request of context p completes in this step.
Completes(p) ==
    /\ proc[p].pc = "awaitApi"
    /\ proc'[p].gw # None

\* C27 as stated: whatever the declared lifetime and the latency, the token
\* of a gateway request is within its lifetime when the request completes.
C27_NeverExpiresInFlight ==
    [][\A p \in Procs :
        Completes(p) => now < proc[p].tokenExpiresAt[1]]_vars

\* C27: a cached token is handed out only while more than 60 seconds of its
\* lifetime remain, so that a gateway request made with a cached token is
\* within the token's lifetime when it completes no later than 60 seconds
\* after the call.
C27_MarginCoversSixtySeconds ==
    /\ [](\A p \in Procs :
            (proc[p].token # None /\ proc[p].tokenRequestsSent = 0)
            => proc[p].calledAt + 60000 < proc[p].tokenExpiresAt[1])
    /\ [][\A p \in Procs :
            (/\ Completes(p)
             /\ proc[p].tokenRequestsSent = 0
             /\ now <= proc[p].calledAt + 60000)
            => now < proc[p].tokenExpiresAt[1]]_vars

\* A gateway request made with a cached token was answered after the clock
\* had advanced, within the token's lifetime.
C27_Witness ==
    \E p \in Procs :
        /\ proc[p].pc = "done"
        /\ proc[p].gw # None
        /\ proc[p].token # None
        /\ proc[p].tokenRequestsSent = 0
        /\ proc[p].calledAt > 0
        /\ now > proc[p].calledAt
        /\ now < proc[p].tokenExpiresAt[1]

-----------------------------------------------------------------------------
(* Properties of one invocation's requests, under SpecCredentials *)

\* C28: there is no retry: one invocation of createPayment, getPaymentStatus
\* or getAvailablePaymentMethods sends at most one request to the token
\* endpoint and at most one to the gateway, the gateway request only once
\* getAccessToken has returned a token, and none when the token exchange
\* failed; a failed exchange or a failed gateway request ends the invocation.
C28_NoRetry ==
    \A p \in Procs :
        LET rec == proc[p] IN
        /\ rec.tokenRequestsSent <= 1
        /\ rec.apiRequestsSent <= 1
        /\ (rec.apiRequestsSent = 1) = (rec.apiCall # None)
        /\ rec.apiCall # None => rec.token # None
        /\ (rec.tokenResponse # None /\ rec.tokenResponse[1].kind # "token")
              => /\ rec.apiRequestsSent = 0
                 /\ rec.pc = "done" /\ ~rec.result[1].ok
        /\ (rec.gw # None /\ (rec.gw[1].kind = "network" \/ rec.gw[1].status \notin 200..299))
              => rec.pc = "done" /\ ~rec.result[1].ok

\* An invocation that sent one token request and one gateway request ended
\* in failure on the gateway's 400.
C28_Witness ==
    \E p \in Procs :
        /\ proc[p].pc = "done"
        /\ proc[p].tokenRequestsSent = 1
        /\ proc[p].apiRequestsSent = 1
        /\ proc[p].gw # None
        /\ proc[p].gw[1].kind # "network"
        /\ proc[p].gw[1].status = 400
        /\ ~proc[p].result[1].ok

====
